---- MODULE Spec2Model ----
(***************************************************************************)
(* Model of scripts/update-gallery.js: the gallery build pipeline.         *)
(*                                                                         *)
(* A file name is a sequence of one-character strings, a path is a         *)
(* sequence of names relative to its root (PHOTOS_DIR or THUMBS_DIR), and   *)
(* the bytes of an image are a record of the properties the libraries read  *)
(* from them.  One behaviour is a sequence of invocations of the script on  *)
(* one source tree; the disk survives from one invocation to the next.      *)
(***************************************************************************)
EXTENDS Integers, Sequences, FiniteSets, TLC

VARIABLES
    tree,         \* directory path -> entries, in readdirSync order (static)
    photosExists, \* PHOTOS_DIR exists on disk
    files,        \* source file path -> bytes (image record)
    thumbDirs,    \* directories that exist under THUMBS_DIR (<<>> is the root)
    thumbFiles,   \* preview path -> [from |-> bytes the preview was made of]
    manifest,     \* OUTPUT_FILE: [exists, recs]
    pc,           \* position of the invocation
    stack,        \* processDirectory activations: [dir, categoryPath, idx]
    photos,       \* const photos = []
    photoId,      \* let photoId = 1
    cur,          \* relativePath of the file in progress (<<>> when none)
    fileBuffer,   \* let fileBuffer
    needsUpdate,  \* let needsUpdate
    exitStatus,   \* exit status of the finished invocation (-1 while running)
    printed,      \* an error was printed by the invocation
    run,          \* number of the invocation, from 1
    faults,       \* transient I/O failures injected so far
    h,            \* what this invocation has done so far (history)
    prev,         \* h of the previous invocation, as it ended
    shutterIn,    \* argument of a direct call of formatShutter
    shutterOut    \* what the call returned (NotCalled before it)

vars == <<tree, photosExists, files, thumbDirs, thumbFiles, manifest, pc, stack,
          photos, photoId, cur, fileBuffer, needsUpdate, exitStatus, printed,
          run, faults, h, prev, shutterIn, shutterOut>>

disk == <<photosExists, files, thumbDirs, thumbFiles, manifest>>
memory == <<stack, photos, photoId, cur, fileBuffer, needsUpdate>>
call == <<shutterIn, shutterOut>>

(***************************************************************************)
(* Bounds of the model.                                                    *)
(***************************************************************************)
MaxRuns == 3      \* invocations of the script in one behaviour
MaxFaults == 2    \* transient I/O failures in one behaviour
MaxMilli == 50    \* largest of the small numbers (in thousandths) given to a formatter

(***************************************************************************)
(* CONFIG                                                                  *)
(***************************************************************************)
maxWidth == 2500

NoOrientation == 0   \* metadata.orientation is undefined

(***************************************************************************)
(* Characters and names.                                                   *)
(***************************************************************************)
UpperLower == { <<"A","a">>, <<"B","b">>, <<"G","g">>, <<"J","j">>, <<"P","p">>,
                <<"E","e">>, <<"X","x">>, <<"N","n">>, <<"T","t">> }

toLowerChar(c) ==
    IF \E p \in UpperLower : p[1] = c
    THEN (CHOOSE p \in UpperLower : p[1] = c)[2]
    ELSE c

toUpperChar(c) ==
    IF \E p \in UpperLower : p[2] = c
    THEN (CHOOSE p \in UpperLower : p[2] = c)[1]
    ELSE c

toLowerCase(s) == [i \in 1..Len(s) |-> toLowerChar(s[i])]

EndsWith(s, suffix) ==
    /\ Len(suffix) <= Len(s)
    /\ SubSeq(s, Len(s) - Len(suffix) + 1, Len(s)) = suffix

StartsWith(s, prefix) ==
    /\ Len(prefix) <= Len(s)
    /\ SubSeq(s, 1, Len(prefix)) = prefix

\* path.extname: from the last '.' of the name to its end; '' when the name
\* has no '.' or its only '.' is its first character.
extname(name) ==
    LET dots == {i \in 1..Len(name) : name[i] = "."}
        last == CHOOSE i \in dots : \A j \in dots : j <= i
    IN IF dots = {} THEN <<>>
       ELSE IF last = 1 THEN <<>>
       ELSE SubSeq(name, last, Len(name))

\* path.basename(p, suffix) on the last segment: the suffix is removed only
\* when the name ends with exactly these characters (case-sensitive).
basename(name, suffix) ==
    IF suffix # <<>> /\ suffix # name /\ EndsWith(name, suffix)
    THEN SubSeq(name, 1, Len(name) - Len(suffix))
    ELSE name

\* path.dirname of a relative path: all segments but the last.
dirname(p) == SubSeq(p, 1, Len(p) - 1)

SupportedExts == { <<".","j","p","g">>, <<".","j","p","e","g">>,
                   <<".","p","n","g">>, <<".","w","e","b","p">> }

webp == <<".","w","e","b","p">>

\* Mutant: no extension is filtered out.
anyExtension(ext) == TRUE

\* ['.jpg', '.jpeg', '.png', '.webp'].includes(ext)
isSupported(ext) == ext \in SupportedExts

Prefixes(p) == { SubSeq(p, 1, n) : n \in 0..Len(p) }

(***************************************************************************)
(* Image bytes.  sharpOk, sizeOk and exifOk say whether sharp, image-size  *)
(* and ExifReader can parse these bytes: a property of the bytes, the same  *)
(* every time they are parsed.                                              *)
(***************************************************************************)
Image(w, ht, o, tags) ==
    [w |-> w, h |-> ht, orient |-> o, sharpOk |-> TRUE, sizeOk |-> TRUE,
     exifOk |-> TRUE, tags |-> tags, reenc |-> 0]

Tag(d) == [description |-> d, value |-> d]

NoTags == [n \in {} |-> Tag(<<>>)]

CameraTags ==
    [n \in {"Model", "LensModel", "ISOSpeedRatings", "FNumber", "ExposureTime"} |->
        CASE n = "Model" -> Tag(<<"X","1">>)
          [] n = "LensModel" -> Tag(<<"2","3","m","m">>)
          [] n = "ISOSpeedRatings" -> Tag(<<"2","0","0">>)
          [] n = "FNumber" -> Tag(<<"f","/","2">>)
          [] n = "ExposureTime" -> Tag(<<"1","/","2","5","0">>)]

RawTags ==
    [n \in {"Make", "Lens", "ApertureValue", "ShutterSpeedValue"} |->
        CASE n = "Make" -> Tag(<<"N","k">>)
          [] n = "Lens" -> [description |-> <<>>, value |-> <<"5","0">>]
          [] n = "ApertureValue" -> Tag(<<"1",".","8">>)
          [] n = "ShutterSpeedValue" -> Tag(<<"0",".","0","0","4">>)]

\* Bytes no library can parse (a damaged file).
Corrupt == [Image(0, 0, NoOrientation, NoTags) EXCEPT
               !.sharpOk = FALSE, !.sizeOk = FALSE, !.exifOk = FALSE]

RoundDiv(a, b) == (2 * a + b) \div (2 * b)

\* metadata.width > CONFIG.full.maxWidth || metadata.height > CONFIG.full.maxWidth
isTooLarge(metadata) == metadata.w > maxWidth \/ metadata.h > maxWidth

\* Mutant: the comparison with 1 is forgotten.
needsRotationAnyTag(metadata) == metadata.orient # NoOrientation

\* metadata.orientation && metadata.orientation !== 1
needsRotation(metadata) ==
    metadata.orient # NoOrientation /\ metadata.orient # 1

\* Mutant: the image is turned and the tag stays.
rotateKeepTag(img) ==
    IF img.orient \in 5..8
    THEN [img EXCEPT !.w = img.h, !.h = img.w]
    ELSE img

\* image.rotate(): auto-orient by the EXIF tag and remove the tag.
rotate(img) ==
    IF img.orient \in 5..8
    THEN [img EXCEPT !.w = img.h, !.h = img.w, !.orient = NoOrientation]
    ELSE [img EXCEPT !.orient = NoOrientation]

\* Mutant: only the width is fitted.
resizeWidthOnly(img, box) ==
    IF img.w <= box THEN img
    ELSE [img EXCEPT !.w = box, !.h = RoundDiv(img.h * box, img.w)]

\* resize(maxWidth, maxWidth, {fit: 'inside', withoutEnlargement: true})
resizeInside(img, box) ==
    IF img.w <= box /\ img.h <= box THEN img
    ELSE IF img.w >= img.h
         THEN [img EXCEPT !.w = box, !.h = RoundDiv(img.h * box, img.w)]
         ELSE [img EXCEPT !.h = box, !.w = RoundDiv(img.w * box, img.h)]

\* The pipeline of lines 83-95: rotate, resize when too large, keep the
\* metadata, encode as JPEG.
optimizedBuffer(buf) ==
    LET rotated == rotate(buf)
        sized == IF isTooLarge(buf) THEN resizeInside(rotated, maxWidth) ELSE rotated
    IN [sized EXCEPT !.sizeOk = TRUE, !.reenc = buf.reenc + 1]

(***************************************************************************)
(* Metadata helpers and the photo record.                                  *)
(***************************************************************************)
\* tags = ExifReader.load(fileBuffer), {} when it throws
loadTags(buf) == IF buf.exifOk THEN buf.tags ELSE NoTags

\* tags[name].description || tags[name].value || ''
getTag(tags, name) ==
    IF name \in DOMAIN tags
    THEN IF tags[name].description # <<>> THEN tags[name].description
         ELSE tags[name].value
    ELSE <<>>

\* a || b on strings: the first unless it is empty
Or(a, b) == IF a # <<>> THEN a ELSE b

Digits == <<"0","1","2","3","4","5","6","7","8","9">>
IsDigit(c) == \E i \in 1..10 : Digits[i] = c
DigitVal(c) == (CHOOSE i \in 1..10 : Digits[i] = c) - 1

RECURSIVE NatOf(_)
NatOf(s) ==
    IF s = <<>> THEN 0
    ELSE 10 * NatOf(SubSeq(s, 1, Len(s) - 1)) + DigitVal(s[Len(s)])

RECURSIVE ToChars(_)
ToChars(n) ==
    IF n < 10 THEN <<Digits[n + 1]>>
    ELSE ToChars(n \div 10) \o <<Digits[(n % 10) + 1]>>

\* A JavaScript value handed to a formatter: a string, or a number held in
\* thousandths.
Str(s) == [type |-> "string", chars |-> s, milli |-> 0]
Num(m) == [type |-> "number", chars |-> <<>>, milli |-> m]

\* !val: the empty string and the number 0 are falsy
falsy(val) ==
    IF val.type = "string" THEN val.chars = <<>> ELSE val.milli = 0

\* The decimals of a number that is not whole, without trailing zeros.
fracDigits(f) ==
    LET d3 == <<Digits[(f \div 100) + 1], Digits[((f \div 10) % 10) + 1],
                Digits[(f % 10) + 1]>>
    IN IF f % 10 # 0 THEN d3
       ELSE IF f % 100 # 0 THEN SubSeq(d3, 1, 2)
       ELSE SubSeq(d3, 1, 1)

\* String(number)
numberToString(m) ==
    IF m % 1000 = 0 THEN ToChars(m \div 1000)
    ELSE ToChars(m \div 1000) \o <<".">> \o fracDigits(m % 1000)

\* val.toString()
toString(val) ==
    IF val.type = "string" THEN val.chars ELSE numberToString(val.milli)

\* parseFloat of a string, in thousandths: the longest prefix that is a
\* decimal literal (digits with at most one point) is read and the rest is
\* ignored; -1 stands for NaN.  Signs, exponents and leading blanks do not
\* occur in the values of the model, and no value has more than three
\* decimals.
parseFloatMilli(s) ==
    LET ok(n) == \A i \in 1..n :
                    \/ IsDigit(s[i])
                    \/ s[i] = "." /\ \A j \in 1..(i - 1) : s[j] # "."
        n == CHOOSE k \in 0..Len(s) : ok(k) /\ (k = Len(s) \/ ~ok(k + 1))
        t == SubSeq(s, 1, n)
        dots == {i \in 1..n : t[i] = "."}
        d == IF dots = {} THEN n + 1 ELSE CHOOSE i \in dots : TRUE
        int == SubSeq(t, 1, d - 1)
        frac == SubSeq(t, d + 1, n)
        frac3 == [i \in 1..3 |-> IF i <= Len(frac) THEN frac[i] ELSE "0"]
    IN IF \E i \in 1..n : IsDigit(t[i])
       THEN 1000 * NatOf(int) + NatOf(frac3)
       ELSE -1

\* formatShutter (lines 140-146)
formatShutter(val) ==
    LET text == toString(val)
        num == parseFloatMilli(text)
    IN IF falsy(val) THEN Str(<<>>)
       ELSE IF \E i \in 1..Len(text) : text[i] = "/" THEN val
       ELSE IF num >= 1000 \/ num = 0 THEN val
       ELSE IF num = -1 THEN Str(<<"1","/","N","a","N">>)
       ELSE Str(<<"1","/">> \o ToChars(RoundDiv(1000, num)))

\* formatAperture (lines 149-153)
formatAperture(val) ==
    IF val = <<>> THEN <<>>
    ELSE IF toLowerCase(val)[1] = "f" THEN val
    ELSE <<"f","/">> \o val

\* sizeOf(fileBuffer), 0 x 0 when it throws (lines 156-162)
dimensions(buf) ==
    IF buf.sizeOk THEN [width |-> buf.w, height |-> buf.h]
    ELSE [width |-> 0, height |-> 0]

General == <<"G","e","n","e","r","a","l">>

\* Mutant: the name of the nearest directory is taken.
categoryOfNearest(categoryPath) ==
    IF categoryPath = <<>> THEN General
    ELSE LET c == categoryPath[Len(categoryPath)]
         IN IF c = <<>> THEN c ELSE <<toUpperChar(c[1])>> \o Tail(c)

\* lines 165-169
categoryOf(categoryPath) ==
    IF categoryPath = <<>> THEN General
    ELSE LET c == categoryPath[1]
         IN IF c = <<>> THEN c ELSE <<toUpperChar(c[1])>> \o Tail(c)

\* entry.name.replace(/\.[^/.]+$/, "").replace(/-/g, ' ')
titleOf(name) ==
    LET dots == {i \in 1..Len(name) : name[i] = "."}
        last == CHOOSE i \in dots : \A j \in dots : j <= i
        stem == IF dots # {} /\ last < Len(name)
                THEN SubSeq(name, 1, last - 1) ELSE name
    IN [i \in 1..Len(stem) |-> IF stem[i] = "-" THEN " " ELSE stem[i]]

\* path.basename(relativePath, ext) + '.webp' (line 106)
thumbName(relativePath, ext) ==
    basename(relativePath[Len(relativePath)], ext) \o webp

\* path.join(path.dirname(relativePath), thumbName) (line 107)
thumbRelativePath(relativePath) ==
    LET ext == toLowerCase(extname(relativePath[Len(relativePath)]))
    IN dirname(relativePath) \o <<thumbName(relativePath, ext)>>

\* `/thumbnails/${thumbRelativePath...}` and `/photos/${relativePath...}`
url(prefix, p) == [prefix |-> prefix, path |-> p]

\* Mutant: the counter is not incremented.
sameId(id) == id

\* photoId++ (line 173)
nextId(id) == id + 1

\* lines 172-187
photoRecord(id, relativePath, categoryPath, buf) ==
    LET tags == loadTags(buf)
        dim == dimensions(buf)
    IN [id |-> id,
        src |-> url("/photos/", relativePath),
        thumbnail |-> url("/thumbnails/", thumbRelativePath(relativePath)),
        title |-> titleOf(relativePath[Len(relativePath)]),
        width |-> dim.width,
        height |-> dim.height,
        category |-> categoryOf(categoryPath),
        exif |-> [camera |-> Or(Or(getTag(tags, "Model"), getTag(tags, "Make")),
                                <<"Unknown Camera">>),
                  lens |-> Or(Or(Or(getTag(tags, "LensModel"), getTag(tags, "Lens")),
                                 getTag(tags, "LensInfo")), <<"Unknown Lens">>),
                  iso |-> Or(getTag(tags, "ISOSpeedRatings"), getTag(tags, "ISO")),
                  aperture |-> formatAperture(Or(getTag(tags, "FNumber"),
                                                 getTag(tags, "ApertureValue"))),
                  \* the tags of the model hold strings, and so does the result
                  shutter |-> formatShutter(Str(Or(getTag(tags, "ExposureTime"),
                                  getTag(tags, "ShutterSpeedValue")))).chars]]

(***************************************************************************)
(* Source trees the model starts from.                                     *)
(***************************************************************************)
aJpg  == <<"a",".","j","p","g">>
aPng  == <<"a",".","p","n","g">>
nTxt  == <<"n",".","t","x","t">>
bJPG  == <<"b",".","J","P","G">>
cWebp == <<"c",".","w","e","b","p">>
deJpeg == <<"d","-","e",".","j","p","e","g">>
gJpeg == <<"g",".","J","p","e","g">>
hJpg  == <<"h",".","j","p","g">>
pets  == <<"p","e","t","s">>
xDir  == <<"x">>
emptyDir == <<"e","m","p","t","y">>

File(name) == [name |-> name, isDirectory |-> FALSE]
Dir(name) == [name |-> name, isDirectory |-> TRUE]

\* Bytes of a file that is no image.
Text == Corrupt

Scenarios == <<
    \* PHOTOS_DIR does not exist
    [exists |-> FALSE,
     tree |-> (<<>> :> <<>>),
     files |-> [q \in {} |-> Corrupt]],
    \* two images that share a base name, and a file that is no image
    [exists |-> TRUE,
     tree |-> (<<>> :> <<File(aJpg), File(nTxt), File(aPng)>>),
     files |-> (<<aJpg>> :> Image(600, 400, 1, CameraTags))
            @@ (<<nTxt>> :> Text)
            @@ (<<aPng>> :> Image(2500, 2500, NoOrientation, RawTags))],
    \* an upper-case extension, nested directories, an empty directory
    [exists |-> TRUE,
     tree |-> (<<>> :> <<File(bJPG), Dir(emptyDir), Dir(pets)>>)
           @@ (<<emptyDir>> :> <<>>)
           @@ (<<pets>> :> <<Dir(xDir), File(cWebp)>>)
           @@ (<<pets, xDir>> :> <<File(deJpeg)>>),
     files |-> (<<bJPG>> :> Image(800, 600, 6, CameraTags))
            @@ (<<pets, cWebp>> :> Image(5000, 3000, 1, NoTags))
            @@ (<<pets, xDir, deJpeg>> :> Corrupt)],
    \* one image too tall, unreadable by image-size and ExifReader
    [exists |-> TRUE,
     tree |-> (<<>> :> <<Dir(pets)>>)
           @@ (<<pets>> :> <<File(gJpeg)>>),
     files |-> (<<pets, gJpeg>> :>
                  [Image(100, 2501, NoOrientation, RawTags) EXCEPT
                      !.sizeOk = FALSE, !.exifOk = FALSE])],
    \* one image too wide that is stored turned by 90 degrees
    [exists |-> TRUE,
     tree |-> (<<>> :> <<File(hJpg)>>),
     files |-> (<<hJpg>> :> Image(3000, 1000, 6, CameraTags))] >>

(***************************************************************************)
(* History: the events of one invocation, in order.                        *)
(***************************************************************************)
Event(op, path) == [op |-> op, path |-> path]

NewHistory(exists, fs, tf, mf) ==
    [start |-> [photosExists |-> exists, files |-> fs, thumbFiles |-> tf,
                manifest |-> mf],
     events |-> <<>>,
     outcome |-> "running",
     snap |-> [files |-> fs, thumbFiles |-> tf, photos |-> <<>>]]

Log(hist, evs) == [hist EXCEPT !.events = hist.events \o evs]

NoManifest == [exists |-> FALSE, recs |-> <<>>, damaged |-> FALSE]

\* The manifest an earlier build of an empty gallery left: "[]".
EmptyManifest == [exists |-> TRUE, recs |-> <<>>, damaged |-> FALSE]

\* No direct call of the formatter is in progress.
NotCalled == [type |-> "none", chars |-> <<>>, milli |-> 0]

Init ==
    /\ \E s \in 1..Len(Scenarios) :
          /\ tree = Scenarios[s].tree
          /\ photosExists = Scenarios[s].exists
          /\ files = Scenarios[s].files
    /\ thumbDirs \in {{}, {<<>>}}
    /\ thumbFiles = [q \in {} |-> Corrupt]
    /\ manifest \in {NoManifest, EmptyManifest}
    /\ pc = "boot"
    /\ stack = <<>>
    /\ photos = <<>>
    /\ photoId = 1
    /\ cur = <<>>
    /\ fileBuffer = Corrupt
    /\ needsUpdate = FALSE
    /\ exitStatus = -1
    /\ printed = FALSE
    /\ run = 1
    /\ faults = 0
    /\ h = NewHistory(photosExists, files, thumbFiles, manifest)
    /\ prev = h
    /\ shutterIn = NotCalled
    /\ shutterOut = NotCalled

\* A transient I/O failure may be injected while the budget lasts.
MayFail == faults < MaxFaults

(***************************************************************************)
(* Lines 29-35: ensure PHOTOS_DIR and THUMBS_DIR exist.  A mkdirSync that   *)
(* throws here is an uncaught exception of the module: the error is printed *)
(* and the process exits with status 1.                                     *)
(***************************************************************************)
\* Mutant: the missing directory is not created.
notEnsured(exists) == exists

\* if (!fs.existsSync(dir)) fs.mkdirSync(dir, { recursive: true }): whether
\* the directory exists afterwards.
ensured(exists) == TRUE

EnsureDirectories ==
    /\ pc = "boot"
    /\ \/ /\ photosExists' = ensured(photosExists)
          /\ thumbDirs' = thumbDirs \cup {<<>>}
          /\ pc' = "start"
          /\ h' = Log(h, (IF photosExists THEN <<>> ELSE <<Event("mkdirPhotos", <<>>)>>)
                         \o (IF <<>> \in thumbDirs THEN <<>>
                             ELSE <<Event("mkdir", <<>>)>>))
          /\ UNCHANGED <<exitStatus, printed, faults>>
       \/ /\ MayFail
          /\ \/ /\ ~photosExists
                /\ UNCHANGED photosExists
             \/ /\ <<>> \notin thumbDirs
                /\ photosExists' = ensured(photosExists)
          /\ UNCHANGED thumbDirs
          /\ pc' = "exited"
          /\ exitStatus' = 1
          /\ printed' = TRUE
          /\ faults' = faults + 1
          /\ h' = [Log(h, <<Event("mkdirFail", <<>>), Event("throw", <<>>)>>) EXCEPT
                      !.outcome = "crashed"]
    /\ UNCHANGED <<call, tree, files, thumbFiles, manifest, memory, run, prev>>

(***************************************************************************)
(* Lines 37-41 and 194-201: generateGallery up to the call of               *)
(* processDirectory(PHOTOS_DIR, '').                                        *)
(***************************************************************************)
StartGallery ==
    /\ pc = "start"
    /\ photos' = <<>>
    /\ photoId' = 1
    /\ IF photosExists
       THEN /\ stack' = <<[directory |-> <<>>, categoryPath |-> <<>>, idx |-> 1]>>
            /\ pc' = "loop"
            /\ UNCHANGED <<exitStatus, h>>
       ELSE /\ pc' = "exited"
            /\ exitStatus' = 0
            /\ h' = [h EXCEPT !.outcome = "notfound"]
            /\ UNCHANGED stack
    /\ UNCHANGED <<call, tree, disk, cur, fileBuffer, needsUpdate, printed, run, faults, prev>>

(***************************************************************************)
(* processDirectory (lines 43-192), one action per awaited step.           *)
(***************************************************************************)
top == stack[Len(stack)]
entries == tree[top.directory]

Advance(st) == [st EXCEPT ![Len(st)].idx = @ + 1]

\* Mutant: a failed mkdirSync is swallowed and the loop goes on.
mkdirErrorSwallowed == "loop"

\* Mutant: the optimize step has no catch.
optimizeErrorEscapes == "rejected"

\* An exception that no try block catches rejects the promise of
\* generateGallery: mkdirSync (line 53), readFileSync (line 66) and
\* writeFileSync of the manifest (line 196) stand outside every try.
onMkdirError == "rejected"
onReadError == "rejected"
onManifestError == "rejected"

\* catch of the optimize step (lines 100-102): warn and go on.
afterOptimizeError == "thumb"

\* Mutant: the catch of the thumbnail step gives the file up and the loop
\* takes the entry again.
thumbnailErrorRetries == "loop"

\* catch of the thumbnail step (lines 120-122): warn and go on.
afterThumbnailError == "record"

\* What a file holds after writeFileSync threw part-way: it was opened for
\* writing, which truncates it, and not all bytes arrived.
Truncated == Corrupt

\* if (needsRotation || isTooLarge) (line 80)
optimizeDue(metadata) == needsRotation(metadata) \/ isTooLarge(metadata)

\* Mutant: the preview is generated on every run.
thumbDueAlways(exists, updated) == TRUE

\* Mutant: needsUpdate is ignored.
thumbDueMissingOnly(exists, updated) == ~exists

\* if (!fs.existsSync(thumbPath) || needsUpdate) (line 113)
thumbDue(exists, updated) == ~exists \/ updated

Reject(evs, to) ==
    /\ pc' = to
    /\ faults' = faults + 1
    /\ h' = [Log(h, evs \o <<Event("throw", cur)>>) EXCEPT
                !.snap = [files |-> files, thumbFiles |-> thumbFiles,
                          photos |-> photos]]

\* Mutant: the directory of the entry is left out of the joined path.
thumbDirRoot(relativePath) == <<>>

\* path.join(THUMBS_DIR, path.dirname(relativePath)) (line 51), relative to
\* THUMBS_DIR: the mirror of the directory that holds the entry.
thumbDirOf(relativePath) == dirname(relativePath)

\* Lines 46-66: the next entry of the directory: mirror its parent directory,
\* then descend into a directory, skip an unsupported file, or read an image.
ProcessEntry ==
    /\ pc = "loop"
    /\ top.idx <= Len(entries)
    /\ LET entry == entries[top.idx]
           relativePath == top.directory \o <<entry.name>>
           thumbDir == thumbDirOf(relativePath)
           made == IF thumbDir \in thumbDirs THEN <<>>
                   ELSE <<Event("mkdir", thumbDir)>>
           ext == toLowerCase(extname(entry.name))
       IN \/ \* fs.mkdirSync(thumbDir) throws
             /\ thumbDir \notin thumbDirs
             /\ MayFail
             /\ Reject(<<Event("mkdirFail", thumbDir)>>, onMkdirError)
             /\ UNCHANGED <<thumbDirs, memory>>
          \/ /\ thumbDirs' = thumbDirs \cup Prefixes(thumbDir)
             /\ IF entry.isDirectory
                THEN /\ stack' = Append(stack, [directory |-> relativePath,
                                                categoryPath |-> relativePath,
                                                idx |-> 1])
                     /\ h' = Log(h, made \o <<Event("enter", relativePath)>>)
                     /\ UNCHANGED <<pc, faults, cur, fileBuffer, needsUpdate>>
                ELSE IF ~isSupported(ext)
                THEN /\ stack' = Advance(stack)
                     /\ h' = Log(h, made \o <<Event("skip", relativePath)>>)
                     /\ UNCHANGED <<pc, faults, cur, fileBuffer, needsUpdate>>
                ELSE \/ \* fs.readFileSync(fullPath) throws
                        /\ MayFail
                        /\ Reject(made \o <<Event("readFail", relativePath)>>, onReadError)
                        /\ UNCHANGED <<stack, cur, fileBuffer, needsUpdate>>
                     \/ /\ fileBuffer' = files[relativePath]
                        /\ needsUpdate' = FALSE
                        /\ cur' = relativePath
                        /\ pc' = "optimize"
                        /\ h' = Log(h, made \o <<Event("read", relativePath)>>)
                        /\ UNCHANGED <<stack, faults>>
             /\ UNCHANGED <<photos, photoId>>
    /\ UNCHANGED <<call, tree, photosExists, files, thumbFiles, manifest, exitStatus,
                   printed, run, prev>>

\* The for loop of a processDirectory activation ends: return to the caller,
\* whose loop goes on to its next entry.
EndDirectory ==
    /\ pc = "loop"
    /\ top.idx > Len(entries)
    /\ IF Len(stack) = 1
       THEN /\ stack' = <<>>
            /\ pc' = "write"
       ELSE /\ stack' = Advance(SubSeq(stack, 1, Len(stack) - 1))
            /\ UNCHANGED pc
    /\ h' = Log(h, <<Event("leave", top.directory)>>)
    /\ UNCHANGED <<call, tree, disk, photos, photoId, cur, fileBuffer, needsUpdate,
                   exitStatus, printed, run, faults, prev>>

\* Lines 69-102: optimize the original inside try/catch.
Optimize ==
    /\ pc = "optimize"
    /\ IF ~fileBuffer.sharpOk
       THEN \* image.metadata() rejects
            /\ pc' = afterOptimizeError
            /\ h' = Log(h, <<Event("optimizeFail", cur)>>)
            /\ UNCHANGED <<files, fileBuffer, needsUpdate, faults>>
       ELSE IF ~optimizeDue(fileBuffer)
       THEN /\ pc' = "thumb"
            /\ UNCHANGED <<files, fileBuffer, needsUpdate, faults, h>>
       ELSE \/ /\ files' = [files EXCEPT ![cur] = optimizedBuffer(fileBuffer)]
               /\ fileBuffer' = optimizedBuffer(fileBuffer)
               /\ needsUpdate' = TRUE
               /\ pc' = "thumb"
               /\ h' = Log(h, <<Event("writeOriginal", cur)>>)
               /\ UNCHANGED faults
            \/ \* pipeline.toBuffer() rejects, or writeFileSync cannot open
               /\ MayFail
               /\ pc' = afterOptimizeError
               /\ faults' = faults + 1
               /\ h' = Log(h, <<Event("optimizeFail", cur)>>)
               /\ UNCHANGED <<files, fileBuffer, needsUpdate>>
            \/ \* writeFileSync throws after it truncated the file
               /\ MayFail
               /\ files' = [files EXCEPT ![cur] = Truncated]
               /\ pc' = afterOptimizeError
               /\ faults' = faults + 1
               /\ h' = Log(h, <<Event("damageOriginal", cur),
                                Event("optimizeFail", cur)>>)
               /\ UNCHANGED <<fileBuffer, needsUpdate>>
    /\ UNCHANGED <<call, tree, photosExists, thumbDirs, thumbFiles, manifest, stack,
                   photos, photoId, cur, exitStatus, printed, run, prev>>

\* Lines 104-122: the preview, inside try/catch.
Thumbnail ==
    /\ pc = "thumb"
    /\ LET thumbPath == thumbRelativePath(cur)
       IN IF ~thumbDue(thumbPath \in DOMAIN thumbFiles, needsUpdate)
          THEN /\ pc' = "record"
               /\ UNCHANGED <<thumbFiles, faults, h>>
          ELSE IF ~fileBuffer.sharpOk
          THEN \* sharp cannot decode the buffer: toFile rejects
               /\ pc' = afterThumbnailError
               /\ h' = Log(h, <<Event("thumbFail", cur)>>)
               /\ UNCHANGED <<thumbFiles, faults>>
          ELSE \/ /\ thumbFiles' = (thumbPath :> [from |-> fileBuffer]) @@ thumbFiles
                  /\ pc' = "record"
                  /\ h' = Log(h, <<Event("writeThumb", cur)>>)
                  /\ UNCHANGED faults
               \/ \* toFile rejects
                  /\ MayFail
                  /\ pc' = afterThumbnailError
                  /\ faults' = faults + 1
                  /\ h' = Log(h, <<Event("thumbFail", cur)>>)
                  /\ UNCHANGED thumbFiles
    /\ UNCHANGED <<call, tree, photosExists, files, thumbDirs, manifest, memory,
                   exitStatus, printed, run, prev>>

\* Lines 124-190: EXIF, dimensions, category, the record; photos.push(photo).
BuildRecord ==
    /\ pc = "record"
    /\ photos' = Append(photos, photoRecord(photoId, cur, top.categoryPath, fileBuffer))
    /\ photoId' = nextId(photoId)
    /\ stack' = Advance(stack)
    /\ cur' = <<>>
    /\ pc' = "loop"
    /\ h' = Log(h, <<Event("push", cur)>>)
    /\ UNCHANGED <<call, tree, disk, fileBuffer, needsUpdate, exitStatus, printed, run,
                   faults, prev>>

\* Line 196: fs.writeFileSync(OUTPUT_FILE, JSON.stringify(photos, null, 2)),
\* then the promise of generateGallery resolves and the process exits.
WriteManifest ==
    /\ pc = "write"
    /\ \/ /\ manifest' = [exists |-> TRUE, recs |-> photos, damaged |-> FALSE]
          /\ pc' = "exited"
          /\ exitStatus' = 0
          /\ h' = [Log(h, <<Event("writeManifest", <<>>)>>) EXCEPT
                      !.outcome = "completed"]
          /\ UNCHANGED faults
       \/ \* writeFileSync cannot open the file
          /\ MayFail
          /\ Reject(<<Event("manifestFail", <<>>)>>, onManifestError)
          /\ UNCHANGED <<manifest, exitStatus>>
       \/ \* writeFileSync throws after it truncated the file
          /\ MayFail
          /\ manifest' = [exists |-> TRUE, recs |-> <<>>, damaged |-> TRUE]
          /\ Reject(<<Event("manifestFail", <<>>)>>, onManifestError)
          /\ UNCHANGED exitStatus
    /\ UNCHANGED <<call, tree, photosExists, files, thumbDirs, thumbFiles, memory,
                   printed, run, prev>>

\* Line 204: generateGallery().catch(console.error).  The rejection is
\* handled, the error is printed, and the process ends with status 0.
CatchError ==
    /\ pc = "rejected"
    /\ printed' = TRUE
    /\ exitStatus' = 0
    /\ pc' = "exited"
    /\ h' = [h EXCEPT !.outcome = "rejected"]
    /\ UNCHANGED <<call, tree, disk, memory, run, faults, prev>>

\* The script is invoked again on the disk the last invocation left.
Restart ==
    /\ pc = "exited"
    /\ run < MaxRuns
    /\ run' = run + 1
    /\ prev' = h
    /\ h' = NewHistory(photosExists, files, thumbFiles, manifest)
    /\ pc' = "boot"
    /\ stack' = <<>>
    /\ photos' = <<>>
    /\ photoId' = 1
    /\ cur' = <<>>
    /\ fileBuffer' = Corrupt
    /\ needsUpdate' = FALSE
    /\ exitStatus' = -1
    /\ printed' = FALSE
    /\ UNCHANGED <<call, tree, disk, faults>>

Next ==
    \/ EnsureDirectories
    \/ StartGallery
    \/ ProcessEntry
    \/ EndDirectory
    \/ Optimize
    \/ Thumbnail
    \/ BuildRecord
    \/ WriteManifest
    \/ CatchError
    \/ Restart

Spec == Init /\ [][Next]_vars

(***************************************************************************)
(* Vocabulary of the properties, stated on the disk and on the history     *)
(* and not through the operators of the pipeline.                          *)
(***************************************************************************)
Paths(hist, op) ==
    { hist.events[i].path : i \in { j \in 1..Len(hist.events) : hist.events[j].op = op } }

Happened(hist, op) == \E i \in 1..Len(hist.events) : hist.events[i].op = op

\* The events of one kind, in the order they happened.
InOrder(hist, op) ==
    LET IsOp(e) == e.op = op
    IN SelectSeq(hist.events, IsOp)

\* The extension of the name, compared case-insensitively, is one of
\* .jpg, .jpeg, .png, .webp.
SupportedName(name) ==
    LET dots == {i \in 1..Len(name) : name[i] = "."}
        last == CHOOSE i \in dots : \A j \in dots : j <= i
        e == IF dots = {} \/ last = 1 THEN <<>>
             ELSE [i \in 1..(Len(name) - last) |-> toLowerChar(name[last + i])]
    IN e \in {<<"j","p","g">>, <<"j","p","e","g">>, <<"p","n","g">>, <<"w","e","b","p">>}

SourceImages == { q \in DOMAIN files : SupportedName(q[Len(q)]) }

\* The supported files of the tree in the order the traversal meets them.
RECURSIVE WalkFrom(_, _)
WalkFrom(dir, i) ==
    IF i > Len(tree[dir]) THEN <<>>
    ELSE LET e == tree[dir][i]
             q == dir \o <<e.name>>
         IN (IF e.isDirectory THEN WalkFrom(q, 1)
             ELSE IF SupportedName(e.name) THEN <<q>> ELSE <<>>)
            \o WalkFrom(dir, i + 1)

Walk == WalkFrom(<<>>, 1)

\* Non-default orientation, or a dimension above the maximum.
MeetsTrigger(img) ==
    (img.orient # NoOrientation /\ img.orient # 1) \/ img.w > 2500 \/ img.h > 2500

NoTriggerAtStart(hist) ==
    \A q \in SourceImages : ~MeetsTrigger(hist.start.files[q])

\* This invocation follows one that ran to completion.
SecondOfTwo ==
    /\ run >= 2
    /\ prev.outcome = "completed"
    /\ h.outcome = "completed"

Idempotent ==
    /\ manifest = h.start.manifest
    /\ ~Happened(h, "writeThumb")

(***************************************************************************)
(* C1, as stated: when the pipeline runs twice to completion on an          *)
(* unchanged source tree in which no original met the optimization trigger, *)
(* the second run writes the manifest of the first and writes no preview.   *)
(* Refuted: a preview whose generation failed in the first run is written   *)
(* by the second.                                                           *)
(***************************************************************************)
C1_IdempotentAsStated ==
    (SecondOfTwo /\ NoTriggerAtStart(prev)) => Idempotent

(***************************************************************************)
(* C1, amended: the same, provided no preview generation failed in the      *)
(* first run.                                                               *)
(***************************************************************************)
C1_Idempotent ==
    (SecondOfTwo /\ NoTriggerAtStart(prev) /\ ~Happened(prev, "thumbFail"))
        => Idempotent

C1_Witness ==
    /\ SecondOfTwo
    /\ NoTriggerAtStart(prev)
    /\ ~Happened(prev, "thumbFail")
    /\ Happened(prev, "writeThumb")
    /\ Len(manifest.recs) >= 2
    /\ Idempotent

(***************************************************************************)
(* C2: an original whose orientation tag is absent or 1 and whose width and *)
(* height are both at most 2500 at the start of a run is never written to   *)
(* in that run: its bytes stay what they were.                              *)
(***************************************************************************)
C2_GuardedOriginalUntouched ==
    \A q \in DOMAIN files :
        ~MeetsTrigger(h.start.files[q]) =>
            /\ files[q] = h.start.files[q]
            /\ q \notin Paths(h, "writeOriginal")
            /\ q \notin Paths(h, "damageOriginal")

C2_Witness ==
    /\ h.outcome = "completed"
    /\ \E q \in Paths(h, "push") :
          /\ h.start.files[q].orient = 1
          /\ h.start.files[q].sharpOk
          /\ ~MeetsTrigger(h.start.files[q])
          /\ files[q] = h.start.files[q]
    /\ \E q \in Paths(h, "push") :
          /\ h.start.files[q].orient = NoOrientation
          /\ h.start.files[q].w = 2500
          /\ files[q] = h.start.files[q]

(***************************************************************************)
(* C3.  At the preview step of an image, "due" says that no file exists at  *)
(* the preview path or that the original was rewritten earlier in this run. *)
(***************************************************************************)
PreviewPath == thumbRelativePath(cur)
PreviewDue == PreviewPath \notin DOMAIN thumbFiles \/ cur \in Paths(h, "writeOriginal")
PreviewWritten == h'.events = h.events \o <<Event("writeThumb", cur)>>
PreviewFailed == h'.events = h.events \o <<Event("thumbFail", cur)>>

(***************************************************************************)
(* C3, as stated: a preview file is written for an image if and only if it  *)
(* is due; when it is not due the preview file is left unchanged.  Refuted: *)
(* a due preview whose generation fails is not written.                     *)
(***************************************************************************)
C3_StalenessAsStated ==
    [][pc = "thumb" =>
          /\ PreviewWritten <=> PreviewDue
          /\ ~PreviewDue => thumbFiles' = thumbFiles]_vars

(***************************************************************************)
(* C3, amended: a preview file is written for an image if and only if it is *)
(* due and its generation does not fail; a preview file changes only by     *)
(* such a write, and then it holds the preview of the step's buffer.        *)
(***************************************************************************)
C3_Staleness ==
    [][pc = "thumb" =>
          /\ PreviewWritten <=> (PreviewDue /\ ~PreviewFailed)
          /\ PreviewFailed => PreviewDue
          /\ ~PreviewWritten => thumbFiles' = thumbFiles
          /\ PreviewWritten =>
                /\ PreviewPath \in DOMAIN thumbFiles'
                /\ \A q \in DOMAIN thumbFiles : q # PreviewPath =>
                       (q \in DOMAIN thumbFiles' /\ thumbFiles'[q] = thumbFiles[q])]_vars

\* An existing preview is kept for an image whose original was not rewritten,
\* in a run that also rewrote an original and replaced its existing preview.
C3_Witness ==
    /\ run >= 2
    /\ pc = "record"
    /\ thumbRelativePath(cur) \in DOMAIN h.start.thumbFiles
    /\ cur \notin Paths(h, "writeOriginal")
    /\ thumbFiles[thumbRelativePath(cur)] = h.start.thumbFiles[thumbRelativePath(cur)]
    /\ \E q \in Paths(h, "writeOriginal") :
          /\ q \in Paths(h, "writeThumb")
          /\ thumbRelativePath(q) \in DOMAIN h.start.thumbFiles

(***************************************************************************)
(* C4.  The manifest holds exactly one record for every source file with a  *)
(* supported extension, in traversal order; each record carries the preview *)
(* path computed for its file, and width 0 and height 0 when the dimensions *)
(* of the bytes it was built from cannot be read.                           *)
(***************************************************************************)
\* The bytes the steps after the optimization work on.
BufferOf(q) ==
    IF q \in Paths(h, "writeOriginal") THEN files[q] ELSE h.start.files[q]

ManifestComplete ==
    /\ h.outcome = "completed"
    /\ manifest.exists
    /\ ~manifest.damaged
    /\ Len(manifest.recs) = Len(Walk)
    /\ \A k \in 1..Len(manifest.recs) :
          LET r == manifest.recs[k]
          IN /\ k <= Len(Walk)
             /\ r.src = [prefix |-> "/photos/", path |-> Walk[k]]
             /\ r.thumbnail.prefix = "/thumbnails/"
             /\ dirname(r.thumbnail.path) = dirname(Walk[k])
             /\ EndsWith(r.thumbnail.path[Len(r.thumbnail.path)], webp)
             /\ ~BufferOf(Walk[k]).sizeOk => (r.width = 0 /\ r.height = 0)

(***************************************************************************)
(* C4, as stated: in any run where every directory creation succeeds,       *)
(* whatever optimization, preview, metadata-parse and dimension-read        *)
(* failures occur, the run completes and writes a complete manifest.        *)
(* Refuted: a source file that cannot be read, or a manifest that cannot be *)
(* written, ends the run without a complete manifest.                       *)
(***************************************************************************)
C4_PerFileFailuresAsStated ==
    (pc = "exited" /\ ~Happened(h, "mkdirFail")) => ManifestComplete

(***************************************************************************)
(* C4, amended: in any run where every directory creation, every read of a  *)
(* source file and the write of the manifest succeed, whatever              *)
(* optimization, preview, metadata-parse and dimension-read failures occur, *)
(* the run completes and writes a complete manifest.                        *)
(***************************************************************************)
C4_PerFileFailures ==
    (/\ pc = "exited"
     /\ ~Happened(h, "mkdirFail")
     /\ ~Happened(h, "readFail")
     /\ ~Happened(h, "manifestFail")) => ManifestComplete

\* A completed run in which an optimization and a preview generation failed
\* and a record was built from bytes neither image-size nor ExifReader reads.
C4_Witness ==
    /\ pc = "exited"
    /\ ManifestComplete
    /\ Happened(h, "optimizeFail")
    /\ Happened(h, "thumbFail")
    /\ Len(manifest.recs) >= 3
    /\ \E k \in 1..Len(manifest.recs) :
          /\ Walk[k] \in Paths(h, "thumbFail")
          /\ ~BufferOf(Walk[k]).sizeOk
          /\ ~BufferOf(Walk[k]).exifOk
          /\ manifest.recs[k].width = 0
          /\ manifest.recs[k].exif.camera = <<"Unknown Camera">>

(***************************************************************************)
(* C5: in a completed run that processes N supported images the ids of the  *)
(* manifest records are exactly 1..N, the k-th image the traversal visits   *)
(* gets id k, and the manifest lists the records in increasing id order.    *)
(***************************************************************************)
C5_IdentifierSequencing ==
    h.outcome = "completed" =>
        LET visited == InOrder(h, "read")
        IN /\ Len(manifest.recs) = Len(visited)
           /\ \A k \in 1..Len(manifest.recs) :
                 /\ manifest.recs[k].id = k
                 /\ k <= Len(visited)
                 /\ manifest.recs[k].src.path = visited[k].path

C5_Witness ==
    /\ h.outcome = "completed"
    /\ Len(manifest.recs) = 3
    /\ manifest.recs[3].id = 3
    /\ Len(manifest.recs[2].src.path) = 3
    /\ Len(manifest.recs[3].src.path) = 2

(***************************************************************************)
(* C6.  A clean completion that leaves the manifest "[]".                   *)
(***************************************************************************)
CleanEmptyGallery ==
    /\ h.outcome = "completed"
    /\ exitStatus = 0
    /\ ~printed
    /\ manifest = [exists |-> TRUE, recs |-> <<>>, damaged |-> FALSE]

(***************************************************************************)
(* C6, as stated: when the source root does not exist when the program      *)
(* starts, the program finishes without error and the manifest it leaves    *)
(* contains the empty list.  Refuted: the program first creates the missing *)
(* directories, and when that fails, or the manifest cannot be written, it  *)
(* ends with an error.                                                      *)
(***************************************************************************)
C6_AbsentRootAsStated ==
    (pc = "exited" /\ ~h.start.photosExists) => CleanEmptyGallery

(***************************************************************************)
(* C6, amended: when the source root does not exist when the program starts *)
(* and no file-system call of the run fails, the program creates the root,  *)
(* finishes without error and leaves a manifest that contains the empty     *)
(* list.                                                                    *)
(***************************************************************************)
C6_AbsentRoot ==
    (pc = "exited" /\ ~h.start.photosExists /\ ~Happened(h, "throw"))
        => (CleanEmptyGallery /\ photosExists)

C6_Witness ==
    /\ pc = "exited"
    /\ ~h.start.photosExists
    /\ ~h.start.manifest.exists
    /\ ~Happened(h, "throw")
    /\ Happened(h, "mkdirPhotos")
    /\ CleanEmptyGallery

(***************************************************************************)
(* C7: whenever an error escapes (a directory creation, a read of a source  *)
(* file or the write of the manifest fails), the program prints the error   *)
(* and ends with a non-zero exit status; a run that ends with exit status 0 *)
(* has completed normally.  The code contradicts this: the rejection of     *)
(* generateGallery() is handled by .catch(console.error), after which the   *)
(* process ends with status 0.                                              *)
(***************************************************************************)
C7_AbortReportedAsFailure ==
    pc = "exited" =>
        /\ Happened(h, "throw") => (printed /\ exitStatus # 0)
        /\ exitStatus = 0 => h.outcome \in {"completed", "notfound"}

(***************************************************************************)
(* C8: when creating a mirrored directory fails while traversing, nothing   *)
(* is processed afterwards in that run (no original is rewritten, no        *)
(* preview written, no record appended) and the manifest is not written:    *)
(* the manifest stays as the run found it.                                  *)
(***************************************************************************)
C8_MkdirFailureAborts ==
    Happened(h, "mkdirFail") =>
        /\ h.events[Len(h.events)].op = "throw"
        /\ h.events[Len(h.events) - 1].op = "mkdirFail"
        /\ files = h.snap.files
        /\ thumbFiles = h.snap.thumbFiles
        /\ photos = h.snap.photos
        /\ manifest = h.start.manifest
        /\ pc \in {"rejected", "exited"}
        /\ h.outcome # "completed"

\* A directory creation failed in the middle of a traversal, after a record
\* was appended and before the last image was visited; the run has ended and
\* the manifest of an earlier build is still there.
C8_Witness ==
    /\ pc = "exited"
    /\ Happened(h, "mkdirFail")
    /\ Happened(h, "push")
    /\ Len(InOrder(h, "read")) < Len(Walk)
    /\ h.start.manifest.exists
    /\ manifest = h.start.manifest

(***************************************************************************)
(* C9: the manifest holds a record for a file only if the extension of the  *)
(* file, compared case-insensitively, is .jpg, .jpeg, .png or .webp; a file *)
(* with another extension yields no record, no preview and consumes no id,  *)
(* and is never read or rewritten.                                          *)
(***************************************************************************)
C9_ExtensionFilter ==
    /\ \A k \in 1..Len(photos) :
          SupportedName(photos[k].src.path[Len(photos[k].src.path)])
    /\ \A k \in 1..Len(manifest.recs) :
          SupportedName(manifest.recs[k].src.path[Len(manifest.recs[k].src.path)])
    /\ \A q \in DOMAIN files \ SourceImages :
          /\ \A op \in {"read", "readFail", "writeOriginal", "damageOriginal",
                        "optimizeFail", "writeThumb", "thumbFail", "push"} :
                 q \notin Paths(h, op)
          /\ files[q] = h.start.files[q]
          /\ cur # q
    /\ pc \in {"loop", "write", "exited"} /\ ~Happened(h, "throw") =>
          photoId = 1 + Cardinality({q \in SourceImages : q \in Paths(h, "read")})

\* A completed run over a tree that holds a file with another extension
\* between two images.
C9_Witness ==
    /\ h.outcome = "completed"
    /\ Happened(h, "skip")
    /\ Len(manifest.recs) = 2
    /\ manifest.recs[2].id = 2
    /\ thumbFiles # <<>>

\* The name without its extension.
BaseName(name) ==
    LET dots == {i \in 1..Len(name) : name[i] = "."}
        last == CHOOSE i \in dots : \A j \in dots : j <= i
    IN IF dots = {} \/ last = 1 THEN name ELSE SubSeq(name, 1, last - 1)

ExpectedPreview(q) == dirname(q) \o <<BaseName(q[Len(q)]) \o <<".","w","e","b","p">>>>

(***************************************************************************)
(* C10: after a completed run in which no preview generation failed, every  *)
(* source image with a supported extension has a preview file at the same   *)
(* relative directory, the same base name and the extension .webp, and its  *)
(* record names exactly that path under /thumbnails/.  The code contradicts *)
(* this for an extension that is not in lower case: it looks for the        *)
(* lower-cased extension at the end of the name, does not find it, and      *)
(* appends .webp to the whole name.                                         *)
(***************************************************************************)
C10_PreviewExists ==
    (h.outcome = "completed" /\ ~Happened(h, "thumbFail")) =>
        /\ \A q \in SourceImages : ExpectedPreview(q) \in DOMAIN thumbFiles
        /\ \A k \in 1..Len(manifest.recs) :
              manifest.recs[k].thumbnail =
                  [prefix |-> "/thumbnails/",
                   path |-> ExpectedPreview(manifest.recs[k].src.path)]

(***************************************************************************)
(* formatShutter on its own (lines 140-146): the function is called once    *)
(* with a value drawn from numbers (in thousandths) and strings.            *)
(***************************************************************************)
ShutterStrings ==
    { <<>>, <<"0">>, <<"2">>, <<"3","0">>, <<"1",".","5">>, <<"0",".","5">>,
      <<"0",".","0","0","4">>, <<"0",".","0","1","6">>, <<"0",".","0">>,
      <<"1","/","2","5","0">>, <<"1","/","3">>, <<"2","s">>, <<"B">> }

ShutterNumbers == (0..MaxMilli) \cup {250, 500, 999, 1000, 1500, 2000, 30000}

ShutterInputs ==
    {Num(m) : m \in ShutterNumbers} \cup {Str(t) : t \in ShutterStrings}

InitFormat ==
    /\ shutterIn \in ShutterInputs
    /\ shutterOut = NotCalled
    /\ tree = Scenarios[1].tree
    /\ photosExists = Scenarios[1].exists
    /\ files = Scenarios[1].files
    /\ thumbDirs = {}
    /\ thumbFiles = [q \in {} |-> Corrupt]
    /\ manifest = NoManifest
    /\ pc = "format"
    /\ stack = <<>>
    /\ photos = <<>>
    /\ photoId = 1
    /\ cur = <<>>
    /\ fileBuffer = Corrupt
    /\ needsUpdate = FALSE
    /\ exitStatus = -1
    /\ printed = FALSE
    /\ run = 1
    /\ faults = 0
    /\ h = NewHistory(photosExists, files, thumbFiles, manifest)
    /\ prev = h

ApplyFormatShutter ==
    /\ pc = "format"
    /\ shutterOut = NotCalled
    /\ shutterOut' = formatShutter(shutterIn)
    /\ UNCHANGED <<shutterIn, tree, disk, memory, pc, exitStatus, printed, run,
                   faults, h, prev>>

NextFormat == ApplyFormatShutter

SpecFormat == InitFormat /\ [][NextFormat]_vars

(***************************************************************************)
(* C15.  What the claim says of a value: whether it contains a '/', and     *)
(* the number it stands for.                                               *)
(***************************************************************************)
HasSlash(v) == v.type = "string" /\ \E i \in 1..Len(v.chars) : v.chars[i] = "/"

\* The thousandths that a string denotes when it is the decimal numeral of
\* a number of the model, -1 when it is none.
NumeralValue(t) ==
    LET fits == {m \in 0..30000 : numberToString(m) = t}
    IN IF fits = {} THEN -1 ELSE CHOOSE m \in fits : TRUE

ValueOf(v) == IF v.type = "number" THEN v.milli ELSE NumeralValue(v.chars)

IsNumeric(v) == ValueOf(v) >= 0

\* round(1/value) for a value of m thousandths, 0 < m < 1000
RoundedInverse(m) ==
    CHOOSE n \in 1..1000 : 2 * n * m - m <= 2000 /\ 2000 < 2 * n * m + m

(***************************************************************************)
(* C15: formatShutter returns its input unchanged when the input contains   *)
(* '/', returns its input unchanged when the input is numeric and >= 1 or   *)
(* exactly 0 (2 gives 2, 0 gives 0), and otherwise, for a numeric input,    *)
(* returns "1/<round(1/value)>" (0.004 gives "1/250").  Refuted by the      *)
(* number 0: line 140 takes it for an absent value and returns ''.          *)
(***************************************************************************)
C15_ShutterFormat ==
    shutterOut # NotCalled =>
        IF HasSlash(shutterIn) THEN shutterOut = shutterIn
        ELSE IF ~IsNumeric(shutterIn) THEN TRUE
        ELSE IF ValueOf(shutterIn) >= 1000 \/ ValueOf(shutterIn) = 0
             THEN shutterOut = shutterIn
        ELSE shutterOut =
                Str(<<"1","/">> \o ToChars(RoundedInverse(ValueOf(shutterIn))))

\* The same statement without the case of the number 0: it holds, so the
\* number 0 is the only input of the model on which the claim fails.
ShutterFormatButZero ==
    shutterIn # Num(0) => C15_ShutterFormat

(***************************************************************************)
(* C11.  A directory of the source tree has a mirror when the same path is  *)
(* a directory under THUMBS_DIR.                                            *)
(***************************************************************************)
Mirrored(d) == d \in thumbDirs

(***************************************************************************)
(* C11, as stated: the mirror of a directory entry exists before the walker *)
(* descends into it, and after a completed run every directory of the       *)
(* source tree, also one without entries, has a mirror.  Refuted: line 51   *)
(* mirrors the directory that holds the entry, so a directory is mirrored   *)
(* only when its first entry is met, and a directory without entries never. *)
(***************************************************************************)
C11_MirroredAsStated ==
    /\ \A d \in Paths(h, "enter") : Mirrored(d)
    /\ h.outcome = "completed" => \A d \in DOMAIN tree : Mirrored(d)

(***************************************************************************)
(* C11, amended: for each entry met during traversal, the mirror of the     *)
(* directory that holds the entry exists before the entry is descended      *)
(* into, skipped or read; hence after a completed run every directory of    *)
(* the source tree that holds at least one entry has a mirror.              *)
(***************************************************************************)
C11_Mirrored ==
    /\ \A i \in 1..Len(h.events) :
          h.events[i].op \in {"enter", "skip", "read", "readFail"} =>
              Mirrored(dirname(h.events[i].path))
    /\ cur # <<>> => Mirrored(dirname(cur))
    /\ \A q \in DOMAIN thumbFiles : Mirrored(dirname(q))
    /\ h.outcome = "completed" =>
          \A d \in DOMAIN tree : tree[d] # <<>> => Mirrored(d)

\* A completed run over nested directories: they are mirrored, the directory
\* without entries is not.
C11_Witness ==
    /\ h.outcome = "completed"
    /\ Mirrored(<<pets>>)
    /\ Mirrored(<<pets, xDir>>)
    /\ <<emptyDir>> \in DOMAIN tree
    /\ ~Mirrored(<<emptyDir>>)

(***************************************************************************)
(* C12: the category of a record is "General" when its file lies directly   *)
(* in the source root, and otherwise the name of the first path segment     *)
(* below the root with its first character in upper case; deeper nesting    *)
(* does not change the category.                                           *)
(***************************************************************************)
Capitalized(name) ==
    [i \in 1..Len(name) |-> IF i = 1 THEN toUpperChar(name[i]) ELSE name[i]]

C12_Category ==
    \A k \in 1..Len(photos) :
        LET q == photos[k].src.path
        IN photos[k].category =
              IF Len(q) = 1 THEN <<"G","e","n","e","r","a","l">>
              ELSE Capitalized(q[1])

\* Records of a file in the root, of a file one level down and of a file two
\* levels down, the last two of the same category.
C12_Witness ==
    /\ Len(photos) = 3
    /\ Len(photos[1].src.path) = 1
    /\ photos[1].category = <<"G","e","n","e","r","a","l">>
    /\ Len(photos[2].src.path) = 3
    /\ photos[2].category = <<"P","e","t","s">>
    /\ Len(photos[3].src.path) = 2
    /\ photos[3].category = <<"P","e","t","s">>

(***************************************************************************)
(* C13: at every point of a run at most one file is in progress; of two     *)
(* files visited one after the other, the read, the rewrite of the          *)
(* original, the preview write and the record append of the first have all  *)
(* finished before the second is read, also across a recursive descent.     *)
(***************************************************************************)
FileOps == {"read", "writeOriginal", "damageOriginal", "optimizeFail",
            "writeThumb", "thumbFail", "push"}

C13_Sequential ==
    LET ev == h.events
        reads == {i \in 1..Len(ev) : ev[i].op = "read"}
        pushes == {i \in 1..Len(ev) : ev[i].op = "push"}
    IN /\ Cardinality(reads) - Cardinality(pushes) \in {0, 1}
       /\ (Cardinality(reads) - Cardinality(pushes) = 1) <=> (cur # <<>>)
       /\ \A i \in reads :
             \* the steps of this file: until its record is appended
             LET done == {j \in pushes : j > i}
                 last == IF done = {} THEN Len(ev) + 1
                         ELSE CHOOSE j \in done : \A k \in done : j <= k
             IN /\ \A j \in 1..Len(ev) :
                      (ev[j].op \in FileOps /\ i < j /\ j <= last) =>
                          (j <= Len(ev) /\ ev[j].path = ev[i].path /\ ev[j].op # "read")
                /\ last <= Len(ev) => ev[last].path = ev[i].path
                /\ \A j \in 1..Len(ev) :
                      (ev[j].op \in FileOps \ {"read"} /\ ev[j].path = ev[i].path
                       /\ j > i) => j <= last

\* The second file of a directory is read after a descent into a
\* subdirectory whose file was rewritten, given a preview and recorded.
C13_Witness ==
    /\ pc = "optimize"
    /\ cur = <<pets, cWebp>>
    /\ Len(InOrder(h, "read")) = 3
    /\ Len(InOrder(h, "push")) = 2
    /\ Happened(h, "writeOriginal")
    /\ Happened(h, "writeThumb")
    /\ Happened(h, "leave")

(***************************************************************************)
(* C14.  The originals rewritten in this run, each with the image it held   *)
(* at the start of the run and the image it holds now.                      *)
(***************************************************************************)
Rewritten == Paths(h, "writeOriginal")

Abs(n) == IF n < 0 THEN -n ELSE n

Larger(a, b) == IF a >= b THEN a ELSE b

\* Width and height as displayed: orientations 5 to 8 turn the image by a
\* quarter, which exchanges the axes.
Upright(img) ==
    IF img.orient \in {5, 6, 7, 8} THEN [w |-> img.h, h |-> img.w]
    ELSE [w |-> img.w, h |-> img.h]

Stored(img) == [w |-> img.w, h |-> img.h]

\* out is in scaled down to fit a square of side 2500: both sides within
\* the square, the ratio kept up to the rounding of one side to a whole
\* number, no side enlarged.
ScaledInto(in, out) ==
    /\ out.w <= 2500
    /\ out.h <= 2500
    /\ 2 * Abs(out.h * in.w - out.w * in.h) <= Larger(in.w, in.h)
    /\ out.w <= in.w
    /\ out.h <= in.h
    /\ out.w = 2500 \/ out.h = 2500

(***************************************************************************)
(* C14, as stated: a rewritten original that had a dimension above 2500     *)
(* has width and height at most 2500, the aspect ratio of the input within  *)
(* rounding, and no dimension larger than the same dimension of the input;  *)
(* one rewritten only for orientation is not resized.  Refuted: an image    *)
(* stored turned by a quarter is set upright first, so its axes are         *)
(* exchanged: 3000x1000 with orientation 6 becomes 833x2500.                *)
(***************************************************************************)
C14_DownscaleAsStated ==
    \A q \in Rewritten :
        LET in == h.start.files[q]
            out == files[q]
        IN IF in.w > 2500 \/ in.h > 2500
           THEN ScaledInto(Stored(in), Stored(out))
           ELSE {out.w, out.h} = {in.w, in.h}

(***************************************************************************)
(* C14, amended: when an original with a dimension above 2500 is optimized  *)
(* successfully, the rewritten image has width and height at most 2500,     *)
(* and, compared with the input set upright (width and height exchanged     *)
(* for orientations 5 to 8), the same aspect ratio within rounding and no   *)
(* dimension larger; an image rewritten only for orientation has exactly    *)
(* the dimensions of the input set upright.                                 *)
(***************************************************************************)
C14_Downscale ==
    \A q \in Rewritten :
        LET in == h.start.files[q]
            out == files[q]
        IN IF in.w > 2500 \/ in.h > 2500
           THEN ScaledInto(Upright(in), Stored(out))
           ELSE Stored(out) = Upright(in)

\* The 3000x1000 image stored with orientation 6 was rewritten as 833x2500.
C14_Witness ==
    /\ <<hJpg>> \in Rewritten
    /\ h.start.files[<<hJpg>>].w = 3000
    /\ h.start.files[<<hJpg>>].orient = 6
    /\ files[<<hJpg>>].w = 833
    /\ files[<<hJpg>>].h = 2500

(***************************************************************************)
(* C16: if any part of the optimization step fails for a file, the original *)
(* on disk keeps the bytes it had before the run, the file is not marked as *)
(* updated, and the later steps of the file use the unmodified bytes.  The  *)
(* code contradicts the first part: writeFileSync (line 96) opens the file  *)
(* for writing, which empties it, and may throw after that.                 *)
(***************************************************************************)
C16_FailureLeavesFile ==
    \A q \in Paths(h, "optimizeFail") :
        /\ files[q] = h.start.files[q]
        /\ cur = q => (~needsUpdate /\ fileBuffer = h.start.files[q])

\* The part of C16 about the memory of the run holds.
FailureLeavesBuffer ==
    \A q \in Paths(h, "optimizeFail") :
        cur = q => (~needsUpdate /\ fileBuffer = h.start.files[q])

(***************************************************************************)
(* C17: for every record of a completed run, the width, the height and the  *)
(* exif fields are those of the bytes the original holds on disk at the end *)
(* of the run, and the preview written in the run is made of those bytes.   *)
(* The code contradicts this after the write of C16 has failed half-way:    *)
(* the record and the preview come from the bytes in memory, the disk holds *)
(* what the failed write left.                                              *)
(***************************************************************************)
SoleOwner(q) ==
    \A r \in SourceImages : thumbRelativePath(r) = thumbRelativePath(q) => r = q

RecordOfBytes(rec, bytes) ==
    /\ rec.width = (IF bytes.sizeOk THEN bytes.w ELSE 0)
    /\ rec.height = (IF bytes.sizeOk THEN bytes.h ELSE 0)
    /\ rec.exif = photoRecord(rec.id, <<aJpg>>, <<>>, bytes).exif

C17_RecordsDescribeFile ==
    h.outcome = "completed" =>
        \A k \in 1..Len(manifest.recs) :
            LET q == Walk[k]
            IN /\ RecordOfBytes(manifest.recs[k], files[q])
               /\ (q \in Paths(h, "writeThumb") /\ SoleOwner(q)) =>
                     thumbFiles[thumbRelativePath(q)].from = files[q]

\* Without the half-way failure of C16 the statement of C17 holds.
RecordsDescribeIntactFile ==
    ~Happened(h, "damageOriginal") => C17_RecordsDescribeFile

(***************************************************************************)
(* C18: over the runs of one behaviour each original is rewritten at most   *)
(* once: an original is rewritten only if it never was before, a rewritten  *)
(* original no longer meets the optimization trigger (default orientation,  *)
(* both dimensions within 2500), and from then on no step of any run        *)
(* changes its bytes.                                                       *)
(***************************************************************************)
RewriteOf(q) == h'.events = h.events \o <<Event("writeOriginal", q)>>

C18_RewrittenOnce ==
    [][\A q \in DOMAIN files :
          /\ files'[q].reenc <= 1
          /\ files[q].reenc >= 1 => files'[q] = files[q]
          /\ RewriteOf(q) =>
                /\ files[q].reenc = 0
                /\ files'[q].reenc = 1
                /\ ~MeetsTrigger(files'[q])]_vars

\* A third run has completed without touching the original that the first
\* run rewrote and set upright.
C18_Witness ==
    /\ run = 3
    /\ h.outcome = "completed"
    /\ <<hJpg>> \in Paths(h, "read")
    /\ files[<<hJpg>>].reenc = 1
    /\ files[<<hJpg>>].orient = NoOrientation
    /\ files = h.start.files
    /\ files = prev.start.files
    /\ <<hJpg>> \notin Paths(prev, "writeOriginal")

(***************************************************************************)
(* C19: once a run completes with no step failure, every existing preview   *)
(* file was generated from the bytes its original holds on disk.  The code  *)
(* contradicts this: a preview made of an original whose optimization       *)
(* failed, and not replaced in the run that rewrote the original because    *)
(* the preview write failed, is kept by every later run.                    *)
(***************************************************************************)
FailureFree(hist) ==
    /\ hist.outcome = "completed"
    /\ \A i \in 1..Len(hist.events) :
          hist.events[i].op \notin {"optimizeFail", "damageOriginal", "thumbFail",
                                    "mkdirFail", "readFail", "manifestFail"}

C19_PreviewsFresh ==
    FailureFree(h) =>
        \A t \in DOMAIN thumbFiles :
            \E q \in SourceImages :
                /\ thumbRelativePath(q) = t
                /\ thumbFiles[t].from = files[q]

(***************************************************************************)
(* C20: within one run two different source images never get the same       *)
(* preview path: no two manifest records have the same thumbnail and no     *)
(* preview file is shared by two source images.  The code contradicts this  *)
(* for two files of one directory whose names differ only in the            *)
(* extension: a.jpg and a.png both get a.webp.                              *)
(***************************************************************************)
C20_PreviewPathsDistinct ==
    /\ \A j, k \in 1..Len(photos) :
          j # k => photos[j].thumbnail # photos[k].thumbnail
    /\ \A j, k \in 1..Len(manifest.recs) :
          j # k => manifest.recs[j].thumbnail # manifest.recs[k].thumbnail

====
